---- MODULE Spec2Model ----
(***************************************************************************)
(* Model of comarch_client: the SOAP client ComarchSOAPAsyncClient         *)
(* (client.py), its error taxonomy (exceptions.py) and the domain model    *)
(* serializers (models/*.py).                                              *)
(*                                                                         *)
(* One caller drives one client object: it enters the session scope,       *)
(* calls operations one at a time, and leaves the scope.  An operation     *)
(* call runs up to the POST (the only suspension point the client has);    *)
(* the transport then either raises or delivers a status and a body text   *)
(* (res.status, res.text()), and the rest of _make_request runs to its     *)
(* return or raise.                                                        *)
(***************************************************************************)
EXTENDS Integers, Sequences, FiniteSets, TLC

VARIABLES
    session,    \* the transport resource: "unset", "open" or "closed"
    acquired,   \* number of ClientSession() constructions so far
    released,   \* number of session.close() calls so far
    pc,         \* caller position: "outside", "inside" (the scope), "awaiting" (a POST)
    calls,      \* operation calls made in the current scope
    call,       \* the operation call in progress or last made (NoCall before any)
    request,    \* what the call POSTed on the session (PyNone when it POSTed nothing)
    posts,      \* number of POSTs the call issued
    response,   \* what the transport did with the POST (NoResponse before it answers)
    parsed,     \* number of times the call handed a body to xmltodict.parse
    result,     \* how the call ended: pending, returned a value, or raised
    logs        \* log records the call emitted, in order

vars == <<session, acquired, released, pc, calls, call, request, posts, response,
          parsed, result, logs>>

(***************************************************************************)
(* Bounds of the model.                                                    *)
(***************************************************************************)
MaxScopes == 2      \* session scopes the caller opens one after the other
MaxCalls == 2       \* operation calls the caller makes inside one scope

(***************************************************************************)
(* Python values.  Every value carries its type tag, so that None, 0, ""   *)
(* and [] stay different values, as they are for `is not None`.            *)
(***************************************************************************)
PyNone == [t |-> "None"]
PyInt(i) == [t |-> "int", v |-> i]
PyStr(s) == [t |-> "str", v |-> s]
PyBool(b) == [t |-> "bool", v |-> b]
PyList(s) == [t |-> "list", v |-> s]
PyDict(d) == [t |-> "dict", v |-> d]

EmptyDict == PyDict(<<>>)

\* Python truth value of v (`not v`, `v or w`, `if v`).
Truthy(v) ==
    CASE v.t = "None" -> FALSE
      [] v.t = "int" -> v.v # 0
      [] v.t = "str" -> v.v # ""
      [] v.t = "chars" -> Len(v.v) > 0
      [] v.t = "bool" -> v.v
      [] v.t = "list" -> Len(v.v) > 0
      [] v.t = "dict" -> DOMAIN v.v # {}
      [] OTHER -> TRUE

\* `a or b`
PyOr(a, b) == IF Truthy(a) THEN a ELSE b

\* dict.update / dict(...): the keys of `more` are added to, or replace, those of `d`.
DictUpdate(d, more) == more @@ d

\* optionals restricted to the keys whose value passes `keep`.
Restrict(d, keys) == [k \in keys |-> d[k]]

\* len(d) of a dict value
NumKeys(d) == Cardinality(DOMAIN d)

(***************************************************************************)
(* Text helpers.  A string that the client upper-cases is kept letter by   *)
(* letter (PyChars), so that str.upper() is computed; dates are records of *)
(* numbers, so that strftime is computed from the fields.                  *)
(***************************************************************************)
PyChars(cs) == [t |-> "chars", v |-> cs]

UpperLetter(c) ==
    CASE c = "j" -> "J"
      [] c = "o" -> "O"
      [] c = "a" -> "A"
      [] c = "n" -> "N"
      [] OTHER -> c

\* str.upper()
Upper(name) == [i \in 1..Len(name) |-> UpperLetter(name[i])]

\* a number as at least two digits ("%d", "%m", "%H", "%M")
Pad2(n) == IF n < 10 THEN "0" \o ToString(n) ELSE ToString(n)

\* date.strftime("%d%m%Y")
StrftimeDMY(d) == Pad2(d.day) \o Pad2(d.month) \o ToString(d.year)

\* datetime.strftime("%Y%m%d")
StrftimeYMD(d) == ToString(d.year) \o Pad2(d.month) \o Pad2(d.day)

\* datetime.strftime("%H%M")
StrftimeHM(d) == Pad2(d.hour) \o Pad2(d.minute)

(***************************************************************************)
(* Domain model serializers (models/*.py).                                 *)
(***************************************************************************)
\* the keys of d whose value is not None
NotNoneKeys(d) == {k \in DOMAIN d : d[k] # PyNone}

\* the keys of d whose value is truthy
TruthyKeys(d) == {k \in DOMAIN d : Truthy(d[k])}

\* an address serialized the way PhoneData is, without the fields that are None
AddressToComarchOmitNone(a) ==
    LET res == [defaultAddress |-> a.default_address,
                addressType |-> a.address_type,
                addressLine1 |-> a.address_line_1,
                addressLine2 |-> a.address_line_2,
                addressLine3 |-> a.address_line_3,
                country |-> a.country,
                state |-> a.state,
                city |-> a.city,
                zipCode |-> a.zip_code,
                email |-> a.email]
    IN PyDict(Restrict(res, NotNoneKeys(res)))

\* Address.to_comarch: every field, the optional ones included when None
AddressToComarch(a) ==
    PyDict([defaultAddress |-> a.default_address,
            addressType |-> a.address_type,
            addressLine1 |-> a.address_line_1,
            addressLine2 |-> a.address_line_2,
            addressLine3 |-> a.address_line_3,
            country |-> a.country,
            state |-> a.state,
            city |-> a.city,
            zipCode |-> a.zip_code,
            email |-> a.email])

\* PhoneData.to_comarch: the fields that are not None
PhoneToComarch(p) ==
    LET res == [phoneNumber |-> p.phone_number,
                phoneType |-> p.phone_type,
                altPhoneNumber |-> p.alt_phone_number,
                altPhoneType |-> p.alt_phone_type,
                fax |-> p.fax]
    IN PyDict(Restrict(res, NotNoneKeys(res)))

\* ExtendedAttribute.to_comarch
ExtendedAttributeToComarch(e) == PyDict([code |-> e.code, value |-> e.value])

\* CommunicationPreferences.to_comarch
CommPrefsToComarch(c) ==
    PyDict([preferredLanguage |-> c.language,
            statementPreference |-> c.statement,
            commPermissionCc |-> c.permission_call_center,
            commPermissionEmail |-> c.permission_email])

\* Customer.to_comarch: the required fields, then the truthy optionals
CustomerToComarch(c) ==
    LET res == [login |-> c.login,
                firstName |-> c.first_name,
                lastName |-> c.last_name,
                dateOfBirth |-> PyStr(StrftimeDMY(c.birthdate)),
                phones |-> PyList([i \in 1..Len(c.phones) |-> PhoneToComarch(c.phones[i])]),
                address |-> PyList([i \in 1..Len(c.addresses) |->
                                        AddressToComarch(c.addresses[i])]),
                commPrefs |-> CommPrefsToComarch(c.communication_preferences),
                extAttributes |-> PyList([i \in 1..Len(c.extended_attributes) |->
                                        ExtendedAttributeToComarch(c.extended_attributes[i])])]
        optionals == [title |-> c.title, gender |-> c.gender, cardNumber |-> c.card_number]
    IN PyDict(DictUpdate(res, Restrict(optionals, TruthyKeys(optionals))))

(***************************************************************************)
(* Inputs the caller draws its arguments from.                             *)
(***************************************************************************)
OptStr(s) == {PyNone, PyStr(""), PyStr(s)}

Addresses ==
    [default_address : {PyBool(TRUE)},
     address_type : {PyStr("H")},
     address_line_1 : {PyStr("1 Main St")},
     country : {PyStr("RUS")},
     city : {PyStr("Tyumen")},
     zip_code : {PyStr("625000")},
     email : {PyStr("jo@example.com")},
     address_line_2 : {PyNone, PyStr("flat 2")},
     address_line_3 : {PyNone, PyStr("floor 3")},
     state : {PyNone, PyStr("TYU")}]

Phones ==
    [phone_number : {PyStr("+70000000000")},
     phone_type : {PyStr("M")},
     alt_phone_number : {PyNone},
     alt_phone_type : {PyNone},
     fax : {PyNone}]

Customers ==
    [login : {PyStr("jo@example.com")},
     first_name : {PyStr("jo")},
     last_name : {PyStr("Ann")},
     birthdate : {[year |-> 1990, month |-> 2, day |-> 7]},
     phones : {<<p>> : p \in Phones},
     addresses : {<<>>} \cup {<<a>> : a \in Addresses},
     communication_preferences :
         {[language |-> PyStr("en"), statement |-> PyStr("E"),
           permission_call_center |-> PyBool(FALSE), permission_email |-> PyBool(TRUE)]},
     extended_attributes : {<<[code |-> PyStr("X1"), value |-> PyNone]>>},
     title : {PyStr("Mr")},
     gender : {PyStr("")},
     card_number : {PyNone}]

(***************************************************************************)
(* Error taxonomy (exceptions.py) and the built-in exceptions that can     *)
(* leave an operation.  Every exception is a record of the same shape; the *)
(* fields a built-in exception does not have are None.                     *)
(***************************************************************************)
HttpCode503 == 503
ErrorCode50301 == 50301

Builtin(type, text) ==
    [type |-> type, http_code |-> PyNone, error_code |-> PyNone,
     message |-> PyStr(text), internal_message |-> PyNone]

\* class attributes of ComarchConnectionError (internal_message from BaseError)
ComarchConnectionErrorClass ==
    [type |-> "ComarchConnectionError",
     http_code |-> PyInt(HttpCode503),
     error_code |-> PyInt(ErrorCode50301),
     message |-> PyStr("Bonus program is unavailable"),
     internal_message |-> PyNone]

\* BaseError.__init__: each argument, or the class attribute when it is falsy;
\* the three asserts fail the construction with AssertionError.
BaseErrorInit(cls, message, error_code, http_code, internal_message) ==
    LET self == [type |-> cls.type,
                 message |-> PyOr(message, cls.message),
                 error_code |-> PyOr(error_code, cls.error_code),
                 http_code |-> PyOr(http_code, cls.http_code),
                 internal_message |-> PyOr(internal_message, cls.internal_message)]
    IN IF ~Truthy(self.message) THEN Builtin("AssertionError", "Message not implemented!")
       ELSE IF ~Truthy(self.error_code)
            THEN Builtin("AssertionError", "Error code not implemented!")
       ELSE IF ~Truthy(self.http_code)
            THEN Builtin("AssertionError", "Http code not implemented!")
       ELSE self

\* exceptions.ComarchConnectionError(internal_message=...)
ComarchConnectionError(internal_message) ==
    BaseErrorInit(ComarchConnectionErrorClass, PyNone, PyNone, PyNone, internal_message)

(***************************************************************************)
(* How an operation call ends.                                             *)
(***************************************************************************)
Pending == [kind |-> "pending", exc |-> PyNone, value |-> PyNone]
Returned(v) == [kind |-> "returned", exc |-> PyNone, value |-> v]
Raised(e) == [kind |-> "raised", exc |-> e, value |-> PyNone]

(***************************************************************************)
(* The client object (client.py): configuration and envelope.  Request ids *)
(* and clock readings only feed the log message and are left out.          *)
(***************************************************************************)
Username == "login"
Password == "secret"
Uri == "https://clm.example/ws"
Timeout == PyInt(5)

Headers ==
    ("content-type" :> "text/xml; charset=\"utf-8\"") @@ ("accept" :> "text/xml")
    @@ ("cache-control" :> "no-cache") @@ ("pragma" :> "no-cache")

\* _class_replace_map
ClassReplaceMap == [m \in {"nonAirlineAccrual"} |-> "nonAirAccrual"]

\* the grouping key, were the remap table not consulted
GroupingKeyNoRemap(method) == method

\* _class_replace_map.get(method, method)
GroupingKey(method) ==
    IF method \in DOMAIN ClassReplaceMap THEN ClassReplaceMap[method] ELSE method

\* f"int:{method}"
BodyElement(method) == "int:" \o method

\* the context block injected next to the data
Context ==
    PyDict([langCode |-> PyStr("en-us"),
            clientLogin |-> PyStr(Username),
            clientPass |-> PyStr(Password)])

\* query
Query(method, query_params) ==
    PyDict(GroupingKey(method) :> PyDict([context |-> Context, data |-> query_params]))

\* template: the document that xmltodict.unparse serializes into request_data
Template(method, query_params) ==
    PyDict("soapenv:Envelope" :>
        PyDict(("@xmlns:soapenv" :> PyStr("http://schemas.xmlsoap.org/soap/envelope/"))
            @@ ("@xmlns:int" :> PyStr("http://interfaces.esb.clm.comarch.com/"))
            @@ ("soapenv:Header" :> EmptyDict)
            @@ ("soapenv:Body" :> PyDict(BodyElement(method) :> Query(method, query_params)))))

\* xmltodict.unparse(template): a well-formed text with both prefixes declared
Unparse(template) == [wf |-> TRUE, ns |-> TRUE, tree |-> template]

\* the arguments of session.post
PostArguments(method, query_params) ==
    [uri |-> Uri,
     data |-> [text |-> Unparse(Template(method, query_params)), encoding |-> "utf-8"],
     headers |-> Headers,
     timeout |-> Timeout]

(***************************************************************************)
(* Operation facade: what each operation does before it awaits             *)
(* _make_request.  The outcome is either a local raise or the method name  *)
(* and parameter mapping handed to _make_request.                          *)
(***************************************************************************)
LocalRaise(e) == [kind |-> "raise", exc |-> e, method |-> "", params |-> PyNone]
Delegate(method, params) ==
    [kind |-> "request", exc |-> PyNone, method |-> method, params |-> PyDict(params)]

GetBalanceOp(a) == Delegate("getBalance", [cardNo |-> a.card_number])
GetCustomerOp(a) == Delegate("getCustomer", [cardNo |-> a.card_number])
GetTransactionsOp(a) == Delegate("getTransactions", [cardNo |-> a.card_number])
GetAccountSummaryOp(a) == Delegate("getAccountSummary", [cardNo |-> a.card_number])

MergeAccountOp(a) ==
    Delegate("mergeAccount", [sourceCardNo |-> a.source_card_number,
                              destinationCardNo |-> a.destination_card_number])

\* the check, were it `value >= 0`
ReverseValueOkNonNegative(value) == value = PyNone \/ value.v >= 0

\* `value is None or value > 0`
ReverseValueOk(value) == value = PyNone \/ value.v > 0

\* the filter, were it `if v`
ReverseSentTruthy(optionals) == TruthyKeys(optionals)

\* the optionals of reverse_non_airline_accrual that are sent: `if v is not None`
ReverseSent(optionals) == NotNoneKeys(optionals)

ReverseNonAirlineAccrualOp(a) ==
    IF ~Truthy(a.transaction_id) /\ ~Truthy(a.partner_transaction_id)
    THEN LocalRaise(Builtin("ValueError",
                            "Either transaction_id or partner_transaction_id is required."))
    ELSE IF ~ReverseValueOk(a.value)
    THEN LocalRaise(Builtin("ValueError", "Expected positive value or None"))
    ELSE LET args == [cardNo |-> a.card_number,
                      partnerCode |-> a.partner_code,
                      trnType |-> a.transaction_type]
             optionals == [trnId |-> a.transaction_id,
                           prtTrnId |-> a.partner_transaction_id,
                           value |-> a.value,
                           desc |-> a.description]
         IN Delegate("reverseNonAirlineAccrual",
                     DictUpdate(args, Restrict(optionals, ReverseSent(optionals))))

\* ",".join(items) for a sequence of strings
RECURSIVE Join(_)
Join(items) ==
    IF Len(items) = 0 THEN ""
    ELSE IF Len(items) = 1 THEN items[1]
    ELSE items[1] \o "," \o Join(Tail(items))

\* ",".join([benefit_codes] if isinstance(benefit_codes, str) else benefit_codes or []) or None
BenCodes(benefit_codes) ==
    LET items == IF benefit_codes.t = "str" THEN <<benefit_codes.v>>
                 ELSE PyOr(benefit_codes, PyList(<<>>)).v
    IN PyOr(PyStr(Join(items)), PyNone)

\* the filter, were it `if v`
AccrualSentTruthy(optionals) == TruthyKeys(optionals)

\* the optionals of non_airline_accrual that are sent: `if v is not None`
AccrualSent(optionals) == NotNoneKeys(optionals)

\* `value <= 0` of non_airline_accrual
AccrualValueBad(value) == value.v <= 0

NonAirlineAccrualOp(a) ==
    IF AccrualValueBad(a.value)
    THEN LocalRaise(Builtin("ValueError", "Expected positive value"))
    ELSE LET args == [trnType |-> a.transaction_type,
                      cardNo |-> a.card_number,
                      value |-> a.value,
                      firstName |-> PyChars(Upper(a.first_name.v)),
                      lastName |-> PyChars(Upper(a.last_name.v)),
                      partnerCode |-> a.partner_code,
                      prtTrnDate |-> PyStr(StrftimeYMD(a.partner_transaction_datetime)),
                      prtTrnTime |-> PyStr(StrftimeHM(a.partner_transaction_datetime)),
                      prtTrnId |-> a.partner_transaction_id]
             optionals == [trnCode |-> a.transaction_code,
                           prtTrnTimeZone |-> PyNone,
                           locCode |-> a.location_code,
                           revenue |-> PyNone,
                           desc |-> a.description,
                           benCodes |-> BenCodes(a.benefit_codes),
                           product |-> PyNone,
                           dynAttr |-> PyNone]
         IN Delegate("nonAirlineAccrual",
                     DictUpdate(args, Restrict(optionals, AccrualSent(optionals))))

EnrollOp(a) ==
    Delegate("enroll", [customer |-> CustomerToComarch(a.customer),
                        incompleteData |-> IF a.is_complete THEN PyStr("N") ELSE PyStr("Y")])

(***************************************************************************)
(* Response bodies.  A body is a text; what the client does with it        *)
(* depends on whether it is well-formed XML (wf), whether every namespace  *)
(* prefix it uses is declared (ns), and on its element tree, written as    *)
(* the mapping xmltodict.parse makes of it: an element without content is  *)
(* None, an element with text only is a str, an element with children a    *)
(* dict, a repeated element a list.                                        *)
(***************************************************************************)
Malformed == [wf |-> FALSE, ns |-> FALSE, tree |-> PyNone]
Document(ns, tree) == [wf |-> TRUE, ns |-> ns, tree |-> tree]

ResponseElement(method) == "ns2:" \o method \o "Response"

\* a method other than `method`, for the response of a different operation
OtherMethod(method) == IF method = "getBalance" THEN "getCustomer" ELSE "getBalance"

ReturnValues == {PyNone, PyDict([balance |-> PyStr("100"), status |-> PyStr("A")])}

\* contents of the response element
ResponseContents ==
    {PyNone, PyStr("text"), PyDict([fault |-> PyStr("x")]),
     PyList(<<PyDict([return |-> PyStr("1")]), PyDict([return |-> PyStr("2")])>>)}
    \cup {PyDict([return |-> r]) : r \in ReturnValues}

Fault == PyDict("soap:Fault" :> PyDict([faultstring |-> PyStr("Internal Error")]))

\* contents of soap:Body
BodyContents(method) ==
    {PyNone, PyStr("text"), Fault,
     PyDict(ResponseElement(OtherMethod(method)) :> PyDict([return |-> PyNone]))}
    \cup {PyDict(ResponseElement(method) :> c) : c \in ResponseContents}

\* contents of soap:Envelope
EnvelopeContents(method) ==
    {PyNone, PyStr("text"), PyDict([other |-> PyNone])}
    \cup {PyDict("soap:Body" :> b) : b \in BodyContents(method)}

Trees(method) ==
    {PyDict([html |-> PyStr("Bad Gateway")])}
    \cup {PyDict("soap:Envelope" :> e) : e \in EnvelopeContents(method)}

\* trees sent with a namespace prefix left undeclared
UnboundTrees(method) ==
    {PyDict("soap:Envelope" :> PyDict("soap:Body" :> b)) :
        b \in {Fault, PyDict(ResponseElement(method) :>
                               PyDict([return |-> PyStr("12")]))}}

\* the bodies the transport may deliver for a request of `method`
Bodies(method) ==
    {Malformed}
    \cup {Document(TRUE, tree) : tree \in Trees(method)}
    \cup {Document(FALSE, tree) : tree \in UnboundTrees(method)}

Statuses == {200, 404, 500}

\* what session.post may raise: aiohttp's connection errors, its other client
\* errors, and the timeouts (asyncio.TimeoutError on expiry of the total timeout,
\* ServerTimeoutError on a socket timeout)
TransportErrors ==
    {"ClientConnectionError", "ClientPayloadError", "ServerTimeoutError", "TimeoutError"}

\* the classes an exception of class e is an instance of
Mro(e) ==
    CASE e = "ClientConnectionError" -> {"ClientConnectionError", "ClientError", "Exception"}
      [] e = "ClientPayloadError" -> {"ClientPayloadError", "ClientError", "Exception"}
      [] e = "ServerTimeoutError" ->
            {"ServerTimeoutError", "ServerConnectionError", "ClientConnectionError",
             "ClientError", "TimeoutError", "Exception"}
      [] e = "TimeoutError" -> {"TimeoutError", "Exception"}
      [] OTHER -> {e, "Exception"}

\* an exception object raised by the transport
TransportException(e) == [t |-> "exception", type |-> e]

NoResponse == [kind |-> "none", exc |-> PyNone, status |-> 0, body |-> Malformed]
PostRaised(e) ==
    [kind |-> "raised", exc |-> TransportException(e), status |-> 0, body |-> Malformed]
PostReturned(status, body) ==
    [kind |-> "returned", exc |-> PyNone, status |-> status, body |-> body]

(***************************************************************************)
(* _make_request after the POST, with the helpers it calls.                *)
(***************************************************************************)
\* the classes named by `except (ClientTimeout, ClientConnectionError, ClientError)`
ExceptClasses == <<"ClientTimeout", "ClientConnectionError", "ClientError">>

\* whether a class derives from BaseException: aiohttp.ClientTimeout is the
\* timeout settings class, not an exception
IsExceptionClass(c) == c # "ClientTimeout"

\* Python's evaluation of the except clause for a raised exception of class e:
\* a class in the tuple that is no exception class makes the match itself raise
\* TypeError; otherwise the exception is handled when it is an instance of one
\* of the classes, and propagates when it is not.
ExceptClause(e) ==
    IF \E i \in DOMAIN ExceptClasses : ~IsExceptionClass(ExceptClasses[i])
    THEN "TypeError"
    ELSE IF \E i \in DOMAIN ExceptClasses : ExceptClasses[i] \in Mro(e)
    THEN "handled"
    ELSE "propagates"

\* xmltodict.parse(text): expat without namespace processing
XmltodictParse(text) ==
    IF text.wf THEN [exc |-> "", value |-> text.tree]
    ELSE [exc |-> "ExpatError", value |-> PyNone]

\* xml.dom.minidom.parseString(text): expat with namespace processing
MinidomParses(text) == text.wf /\ text.ns

\* _prettify_xml(text), when minidom parses the text
Prettified(text) == [t |-> "pretty", of |-> text]

\* v.get(key)
Get(v, key) ==
    IF v.t # "dict" THEN [exc |-> "AttributeError", value |-> PyNone]
    ELSE [exc |-> "", value |-> IF key \in DOMAIN v.v THEN v.v[key] ELSE PyNone]

\* v[key]
Subscript(v, key) ==
    IF v.t # "dict" THEN [exc |-> "TypeError", value |-> PyNone]
    ELSE IF key \in DOMAIN v.v THEN [exc |-> "", value |-> v.v[key]]
    ELSE [exc |-> "KeyError", value |-> PyNone]

\* ((xmltodict.parse(response_data).get("soap:Envelope") or {}).get("soap:Body") or {})
\*     .get(f"ns2:{method}Response")
ResponseData(response_data, method) ==
    LET doc == XmltodictParse(response_data)
    IN IF doc.exc # "" THEN doc
       ELSE LET envelope == Get(doc.value, "soap:Envelope")
            IN IF envelope.exc # "" THEN envelope
               ELSE LET body == Get(PyOr(envelope.value, EmptyDict), "soap:Body")
                    IN IF body.exc # "" THEN body
                       ELSE Get(PyOr(body.value, EmptyDict), ResponseElement(method))

\* the check, were only the 5xx statuses refused
StatusOkBelow500(status) == status < 500

\* `res.status != 200` is false
StatusOk(status) == status = 200

\* the value returned, were it `data` itself
ReturnOfWhole(data) == [exc |-> "", value |-> data]

\* data["return"], the value _make_request returns
ReturnOf(data) == Subscript(data, "return")

\* _log: the request and the response are prettified, then the record is emitted
\* at `level`; a text minidom cannot parse makes _log raise before it emits.
Log(level, method, req, resp, response_code, error) ==
    IF (Truthy(req) /\ ~MinidomParses(req.v)) \/ (Truthy(resp) /\ ~MinidomParses(resp.v))
    THEN [exc |-> "ExpatError", records |-> <<>>]
    ELSE [exc |-> "",
          records |-> <<[level |-> level,
                         method |-> method,
                         response_code |-> response_code,
                         request |-> IF Truthy(req) THEN Prettified(req.v) ELSE req,
                         response |-> IF Truthy(resp) THEN Prettified(resp.v) ELSE resp,
                         error |-> error]>>]

\* a request or response text as a Python str
PyText(text) == [t |-> "text", v |-> text]

\* f"Response status code: {res.status}; response: {response_data}"
StatusDetail(status, response_data) ==
    [t |-> "status_detail", status |-> status, response |-> response_data]

\* f"Comarch soap error response:\n\n{self._prettify_xml(response_data)}\n"
SoapErrorDetail(pretty) == [t |-> "soap_error_detail", response |-> pretty]

Outcome(res, nparsed, records) ==
    [result |-> res, parsed |-> nparsed, logs |-> records]

\* the except clause of the POST and its handler
AfterPostRaised(method, request_data, e) ==
    LET how == ExceptClause(e.type)
    IN IF how = "TypeError"
       THEN Outcome(Raised(Builtin("TypeError",
                "catching classes that do not inherit from BaseException is not allowed")),
                0, <<>>)
       ELSE IF how = "propagates"
       THEN Outcome(Raised(Builtin(e.type, "")), 0, <<>>)
       ELSE LET log == Log("warning", method, PyText(request_data), PyNone, PyNone, e)
            IN IF log.exc # ""
               THEN Outcome(Raised(Builtin(log.exc, "")), 0, <<>>)
               ELSE Outcome(Raised(ComarchConnectionError(e)), 0, log.records)

\* from `response_data = await res.text()` to the return
AfterPostReturned(method, request_data, status, response_data) ==
    IF ~StatusOk(status)
    THEN Outcome(Raised(ComarchConnectionError(StatusDetail(status, response_data))),
                 0, <<>>)
    ELSE LET data == ResponseData(response_data, method)
         IN IF data.exc # ""
            THEN Outcome(Raised(Builtin(data.exc, "")), 1, <<>>)
            ELSE IF data.value = PyNone
            THEN IF ~MinidomParses(response_data)
                 THEN Outcome(Raised(Builtin("ExpatError", "")), 1, <<>>)
                 ELSE Outcome(Raised(ComarchConnectionError(
                                  SoapErrorDetail(Prettified(response_data)))), 1, <<>>)
            ELSE LET log == Log("debug", method, PyText(request_data),
                                PyText(response_data), PyInt(status), PyNone)
                     ret == ReturnOf(data.value)
                 IN IF log.exc # ""
                    THEN Outcome(Raised(Builtin(log.exc, "")), 1, <<>>)
                    ELSE IF ret.exc # ""
                    THEN Outcome(Raised(Builtin(ret.exc, "")), 1, log.records)
                    ELSE Outcome(Returned(ret.value), 1, log.records)

(***************************************************************************)
(* Arguments the caller passes to the operations.                          *)
(***************************************************************************)
CardArgs == [card_number : {PyStr("000000000")}]

MergeArgs ==
    [source_card_number : {PyStr("000000000")},
     destination_card_number : {PyStr("111111111")}]

\* every combination of the two identifiers, and every value and description
ReverseArgs ==
    [card_number : {PyStr("000000000")},
     partner_code : {PyStr("UT")},
     transaction_type : {PyStr("HOTEL")},
     transaction_id : {PyNone, PyInt(0), PyInt(7)},
     partner_transaction_id : OptStr("p-1"),
     value : {PyNone, PyInt(5)},
     description : {PyNone}]
    \cup
    [card_number : {PyStr("000000000")},
     partner_code : {PyStr("UT")},
     transaction_type : {PyStr("HOTEL")},
     transaction_id : {PyNone, PyInt(7)},
     partner_transaction_id : {PyStr("p-1")},
     value : {PyNone, PyInt(-1), PyInt(0), PyInt(5)},
     description : OptStr("refund")]

\* the values the precondition rejects, and every combination of the optionals
AccrualArgs ==
    [transaction_type : {PyStr("HOTEL")},
     card_number : {PyStr("000000000")},
     first_name : {PyChars(<<"j", "o">>)},
     last_name : {PyChars(<<"A", "n", "n">>)},
     transaction_code : {PyNone},
     partner_code : {PyStr("UT")},
     partner_transaction_datetime :
         {[year |-> 2020, month |-> 3, day |-> 9, hour |-> 7, minute |-> 5]},
     partner_transaction_id : {PyStr("p-1")},
     value : {PyInt(-1), PyInt(0)},
     description : {PyNone},
     location_code : {PyNone},
     benefit_codes : {PyNone}]
    \cup
    [transaction_type : {PyStr("HOTEL")},
     card_number : {PyStr("000000000")},
     first_name : {PyChars(<<"j", "o">>)},
     last_name : {PyChars(<<"A", "n", "n">>)},
     transaction_code : {PyNone, PyStr("TC")},
     partner_code : {PyStr("UT")},
     partner_transaction_datetime :
         {[year |-> 2020, month |-> 3, day |-> 9, hour |-> 7, minute |-> 5]},
     partner_transaction_id : {PyStr("p-1")},
     value : {PyInt(5)},
     description : OptStr("stay"),
     location_code : {PyStr("")},
     benefit_codes : {PyNone, PyStr(""), PyStr("B1"), PyList(<<>>), PyList(<<"">>),
                      PyList(<<"B1", "B2">>)}]

EnrollArgs == [customer : Customers, is_complete : BOOLEAN]

(***************************************************************************)
(* State machine.                                                          *)
(***************************************************************************)
NoCall == [op |-> "", args |-> PyNone]
NoRequest == [method |-> "", query_params |-> PyNone, post |-> PyNone]
NoResult == [kind |-> "none", exc |-> PyNone, value |-> PyNone]

Init ==
    /\ session = "unset"
    /\ acquired = 0
    /\ released = 0
    /\ pc = "outside"
    /\ calls = 0
    /\ call = NoCall
    /\ request = NoRequest
    /\ posts = 0
    /\ response = NoResponse
    /\ parsed = 0
    /\ result = NoResult
    /\ logs = <<>>

\* __aenter__: a new ClientSession; the caller starts a scope with no call made
AEnter ==
    /\ pc = "outside"
    /\ acquired < MaxScopes
    /\ session' = "open"
    /\ acquired' = acquired + 1
    /\ released' = released
    /\ pc' = "inside"
    /\ calls' = 0
    /\ call' = NoCall
    /\ request' = NoRequest
    /\ posts' = 0
    /\ response' = NoResponse
    /\ parsed' = 0
    /\ result' = NoResult
    /\ logs' = <<>>

\* __aexit__, were it to close the session only when no exception is in flight
ClosesUnlessRaising(exc_type) == exc_type = PyNone

\* whether __aexit__(exc_type, exc_val, exc_tb) closes the session
Closes(exc_type) == TRUE

\* __aexit__: the scope is left normally (exc_type None) or by the exception the
\* last call raised
AExit ==
    /\ pc = "inside"
    /\ \E exc_type \in {PyNone} \cup (IF result.kind = "raised" THEN {PyStr(result.exc.type)}
                                      ELSE {}) :
          IF Closes(exc_type)
          THEN session' = "closed" /\ released' = released + 1
          ELSE UNCHANGED <<session, released>>
    /\ pc' = "outside"
    /\ UNCHANGED <<acquired, calls, call, request, posts, response, parsed, result, logs>>

\* an operation up to its raise or to the POST inside _make_request
Invoke(op, a, effect) ==
    /\ pc = "inside"
    /\ calls < MaxCalls
    /\ calls' = calls + 1
    /\ call' = [op |-> op, args |-> a]
    /\ response' = NoResponse
    /\ parsed' = 0
    /\ logs' = <<>>
    /\ IF effect.kind = "raise"
       THEN /\ request' = NoRequest
            /\ posts' = 0
            /\ result' = Raised(effect.exc)
            /\ pc' = "inside"
       ELSE /\ request' = [method |-> effect.method,
                           query_params |-> effect.params,
                           post |-> PostArguments(effect.method, effect.params)]
            /\ posts' = 1
            /\ result' = Pending
            /\ pc' = "awaiting"
    /\ UNCHANGED <<session, acquired, released>>

GetBalance ==
    /\ pc = "inside"
    /\ \E a \in CardArgs : Invoke("get_balance", a, GetBalanceOp(a))

GetCustomer ==
    /\ pc = "inside"
    /\ \E a \in CardArgs : Invoke("get_customer", a, GetCustomerOp(a))

GetTransactions ==
    /\ pc = "inside"
    /\ \E a \in CardArgs : Invoke("get_transactions", a, GetTransactionsOp(a))

GetAccountSummary ==
    /\ pc = "inside"
    /\ \E a \in CardArgs : Invoke("get_account_summary", a, GetAccountSummaryOp(a))

MergeAccount ==
    /\ pc = "inside"
    /\ \E a \in MergeArgs : Invoke("merge_account", a, MergeAccountOp(a))

ReverseNonAirlineAccrual ==
    /\ pc = "inside"
    /\ \E a \in ReverseArgs :
          Invoke("reverse_non_airline_accrual", a, ReverseNonAirlineAccrualOp(a))

NonAirlineAccrual ==
    /\ pc = "inside"
    /\ \E a \in AccrualArgs : Invoke("non_airline_accrual", a, NonAirlineAccrualOp(a))

Enroll ==
    /\ pc = "inside"
    /\ \E a \in EnrollArgs : Invoke("enroll", a, EnrollOp(a))

\* the rest of _make_request, run when the transport has answered
Resume(answer, outcome) ==
    /\ response' = answer
    /\ result' = outcome.result
    /\ parsed' = outcome.parsed
    /\ logs' = outcome.logs
    /\ pc' = "inside"
    /\ UNCHANGED <<session, acquired, released, calls, call, request, posts>>

\* session.post raises
MakeRequestPostRaised ==
    /\ pc = "awaiting"
    /\ \E e \in TransportErrors :
          Resume(PostRaised(e),
                 AfterPostRaised(request.method, request.post.data.text,
                                 TransportException(e)))

\* session.post returns a response with a status and a body
MakeRequestPostReturned ==
    /\ pc = "awaiting"
    /\ \E status \in Statuses, body \in Bodies(request.method) :
          Resume(PostReturned(status, body),
                 AfterPostReturned(request.method, request.post.data.text, status, body))

Next ==
    \/ AEnter
    \/ AExit
    \/ GetBalance
    \/ GetCustomer
    \/ GetTransactions
    \/ GetAccountSummary
    \/ MergeAccount
    \/ ReverseNonAirlineAccrual
    \/ NonAirlineAccrual
    \/ Enroll
    \/ MakeRequestPostRaised
    \/ MakeRequestPostReturned

Spec == Init /\ [][Next]_vars

(***************************************************************************)
(* Properties.                                                             *)
(***************************************************************************)
\* the call ended with the connectivity failure
ConnectivityFailure ==
    /\ result.kind = "raised"
    /\ result.exc.type = "ComarchConnectionError"
    /\ result.exc.http_code = PyInt(503)
    /\ result.exc.message = PyStr("Bonus program is unavailable")

\* the body holds the path envelope -> body -> '{method}Response'
HasPath(body, method) ==
    /\ body.wf
    /\ "soap:Envelope" \in DOMAIN body.tree.v
    /\ body.tree.v["soap:Envelope"].t = "dict"
    /\ "soap:Body" \in DOMAIN body.tree.v["soap:Envelope"].v
    /\ body.tree.v["soap:Envelope"].v["soap:Body"].t = "dict"
    /\ ResponseElement(method) \in DOMAIN body.tree.v["soap:Envelope"].v["soap:Body"].v

\* the '{method}Response' element of a body that holds the path
ElementOf(body, method) ==
    body.tree.v["soap:Envelope"].v["soap:Body"].v[ResponseElement(method)]

\* the call violates a local precondition of its operation
C1_FailsLocally ==
    \/ /\ call.op = "reverse_non_airline_accrual"
       /\ \/ ~Truthy(call.args.transaction_id) /\ ~Truthy(call.args.partner_transaction_id)
          \/ call.args.value # PyNone /\ call.args.value.v <= 0
    \/ /\ call.op = "non_airline_accrual"
       /\ call.args.value.v <= 0

\* C1: a reversal called with no usable transaction identifier or with a supplied
\* value that is not strictly positive, and an accrual called with value <= 0, end
\* with ValueError and without any POST on the session.
C1_LocalFailuresNeverPost ==
    C1_FailsLocally =>
        /\ result.kind = "raised"
        /\ result.exc.type = "ValueError"
        /\ posts = 0
        /\ request = NoRequest
        /\ response = NoResponse

C1_Witness ==
    /\ call.op = "reverse_non_airline_accrual"
    /\ Truthy(call.args.transaction_id)
    /\ call.args.value = PyInt(0)
    /\ result.kind = "raised"
    /\ posts = 0

\* C2: when the transport returns a status other than 200, whatever the body, the
\* call ends with the connectivity failure and the body was never given to the
\* document parser.
C2_Non200IsConnectivityFailure ==
    (response.kind = "returned" /\ response.status # 200) =>
        /\ ConnectivityFailure
        /\ parsed = 0

C2_Witness ==
    /\ response.kind = "returned"
    /\ response.status = 404
    /\ HasPath(response.body, request.method)
    /\ ConnectivityFailure
    /\ parsed = 0

\* C3 (as claimed): when the transport returns 200 and the path envelope -> body ->
\* '{operation}Response' is absent from the body, a malformed body included, the call
\* ends with the connectivity failure whose internal detail carries the body.
C3_AbsentPathIsConnectivityFailure ==
    (/\ response.kind = "returned"
     /\ response.status = 200
     /\ ~HasPath(response.body, request.method)) =>
        /\ ConnectivityFailure
        /\ result.exc.internal_message = SoapErrorDetail(Prettified(response.body))

\* C4 (as claimed): when the POST raises a connection error or a timeout, the call
\* ends with the connectivity failure and with no other exception.
C4_TransportErrorIsConnectivityFailure ==
    response.kind = "raised" => ConnectivityFailure

C5_ExpectedShape ==
    /\ response.kind = "returned"
    /\ response.status = 200
    /\ response.body.ns
    /\ HasPath(response.body, request.method)
    /\ ElementOf(response.body, request.method).t = "dict"
    /\ "return" \in DOMAIN ElementOf(response.body, request.method).v

C6_AcquiredOnceReleasedOnce ==
    /\ pc = "outside" => (released = acquired /\ session # "open")
    /\ pc # "outside" => (acquired = released + 1 /\ session = "open")

C6_Witness ==
    /\ pc = "outside"
    /\ acquired > 0
    /\ released = acquired
    /\ calls > 1
    /\ result.kind = "raised"

\* the SOAP method each operation passes to _make_request
C7_MethodOf(op) ==
    CASE op = "get_balance" -> "getBalance"
      [] op = "get_customer" -> "getCustomer"
      [] op = "get_transactions" -> "getTransactions"
      [] op = "get_account_summary" -> "getAccountSummary"
      [] op = "merge_account" -> "mergeAccount"
      [] op = "reverse_non_airline_accrual" -> "reverseNonAirlineAccrual"
      [] op = "non_airline_accrual" -> "nonAirlineAccrual"
      [] op = "enroll" -> "enroll"

\* C7: in the envelope POSTed for operation X the body holds the one element
\* 'int:X'; under it the one grouping key is X, except for nonAirlineAccrual, whose
\* grouping key is nonAirAccrual; the grouping key holds exactly the context block
\* and the data mapping.
C7_EnvelopeNaming ==
    posts = 1 =>
        LET X == C7_MethodOf(call.op)
            envelope == request.post.data.text.tree.v["soapenv:Envelope"].v
            body == envelope["soapenv:Body"].v
        IN /\ DOMAIN body = {"int:" \o X}
           /\ LET grouping == body["int:" \o X].v
                  key == IF X = "nonAirlineAccrual" THEN "nonAirAccrual" ELSE X
              IN /\ DOMAIN grouping = {key}
                 /\ DOMAIN grouping[key].v = {"context", "data"}
                 /\ grouping[key].v["data"] = request.query_params
                 /\ grouping[key].v["context"] =
                        PyDict([langCode |-> PyStr("en-us"),
                                clientLogin |-> PyStr(Username),
                                clientPass |-> PyStr(Password)])

C7_Witness ==
    /\ posts = 1
    /\ call.op = "non_airline_accrual"
    /\ "int:nonAirlineAccrual" \in
          DOMAIN request.post.data.text.tree.v["soapenv:Envelope"].v["soapenv:Body"].v

\* the serialized addresses of the enrollment POSTed
C8_SentAddresses == request.query_params.v["customer"].v["address"].v

\* C8 (as claimed): every address of an enrollment is serialized with exactly 9
\* keys, whichever of address lines 2 and 3 and state are None.
C8_AddressHasNineKeys ==
    (call.op = "enroll" /\ posts = 1) =>
        /\ Len(C8_SentAddresses) = Len(call.args.customer.addresses)
        /\ \A i \in 1..Len(C8_SentAddresses) : NumKeys(C8_SentAddresses[i].v) = 9

\* C8 (amended): every address of an enrollment is serialized with exactly 10
\* keys, whichever of address lines 2 and 3 and state are None.
C8_AddressHasTenKeys ==
    (call.op = "enroll" /\ posts = 1) =>
        /\ Len(C8_SentAddresses) = Len(call.args.customer.addresses)
        /\ \A i \in 1..Len(C8_SentAddresses) : NumKeys(C8_SentAddresses[i].v) = 10

C8_Witness ==
    /\ call.op = "enroll"
    /\ posts = 1
    /\ Len(call.args.customer.addresses) = 1
    /\ call.args.customer.addresses[1].address_line_2 = PyNone
    /\ call.args.customer.addresses[1].address_line_3 = PyNone
    /\ call.args.customer.addresses[1].state = PyNone
    /\ NumKeys(C8_SentAddresses[1].v) = 10

\* a reversal that passed its preconditions, with neither value nor description
C9_FullReversalSent ==
    /\ call.op = "reverse_non_airline_accrual"
    /\ posts = 1
    /\ call.args.value = PyNone
    /\ call.args.description = PyNone

\* C9 (as claimed): such a reversal sends exactly 3 keys: card number, partner
\* code and transaction type.
C9_ThreeKeys ==
    C9_FullReversalSent =>
        DOMAIN request.query_params.v = {"cardNo", "partnerCode", "trnType"}

\* C9 (amended): such a reversal sends card number, partner code and transaction
\* type and, besides, each transaction identifier that was supplied (not None):
\* 4 or 5 keys, never 3.
C9_ThreeKeysAndIdentifiers ==
    C9_FullReversalSent =>
        /\ DOMAIN request.query_params.v =
              {"cardNo", "partnerCode", "trnType"}
              \cup (IF call.args.transaction_id # PyNone THEN {"trnId"} ELSE {})
              \cup (IF call.args.partner_transaction_id # PyNone THEN {"prtTrnId"} ELSE {})
        /\ NumKeys(request.query_params.v) \in {4, 5}

C9_Witness ==
    /\ C9_FullReversalSent
    /\ call.args.transaction_id = PyInt(0)
    /\ call.args.partner_transaction_id = PyStr("p-1")
    /\ NumKeys(request.query_params.v) = 5

\* the optional parameters of the accrual or reversal POSTed: wire name -> argument
C10_Optionals ==
    IF call.op = "reverse_non_airline_accrual"
    THEN [trnId |-> call.args.transaction_id,
          prtTrnId |-> call.args.partner_transaction_id,
          value |-> call.args.value,
          desc |-> call.args.description]
    ELSE [trnCode |-> call.args.transaction_code,
          locCode |-> call.args.location_code,
          desc |-> call.args.description,
          benCodes |-> call.args.benefit_codes]

C10_Sent ==
    /\ call.op \in {"reverse_non_airline_accrual", "non_airline_accrual"}
    /\ posts = 1

\* the argument is neither None nor empty
C10_NonEmpty(v) ==
    CASE v.t = "None" -> FALSE
      [] v.t = "str" -> v.v # ""
      [] v.t = "list" -> Len(v.v) > 0
      [] OTHER -> TRUE

\* the benefit codes join to a non-empty string
C10_JoinsNonEmpty(v) ==
    CASE v.t = "str" -> v.v # ""
      [] v.t = "list" -> Len(v.v) > 1 \/ (Len(v.v) = 1 /\ v.v[1] # "")
      [] OTHER -> FALSE

\* C10 (as claimed): an optional parameter is in the mapping sent only when its
\* argument is neither None nor empty.
C10_OnlyNonEmptyOptionalsSent ==
    C10_Sent =>
        \A k \in DOMAIN C10_Optionals :
            k \in DOMAIN request.query_params.v => C10_NonEmpty(C10_Optionals[k])

\* C10 (amended): an optional parameter is in the mapping sent exactly when its
\* argument is not None, an empty string or a zero included; only the benefit
\* codes are also left out when they join to the empty string; the optionals the
\* accrual has no argument for are never sent.
C10_NotNoneOptionalsSent ==
    C10_Sent =>
        /\ \A k \in DOMAIN C10_Optionals \ {"benCodes"} :
              /\ k \in DOMAIN request.query_params.v <=> C10_Optionals[k] # PyNone
              /\ k \in DOMAIN request.query_params.v =>
                    request.query_params.v[k] = C10_Optionals[k]
        /\ "benCodes" \in DOMAIN C10_Optionals =>
              ("benCodes" \in DOMAIN request.query_params.v
                  <=> C10_JoinsNonEmpty(C10_Optionals["benCodes"]))
        /\ DOMAIN request.query_params.v
              \cap {"prtTrnTimeZone", "revenue", "product", "dynAttr"} = {}

C10_Witness ==
    /\ call.op = "non_airline_accrual"
    /\ posts = 1
    /\ call.args.description = PyStr("")
    /\ call.args.benefit_codes = PyList(<<>>)
    /\ "desc" \in DOMAIN request.query_params.v
    /\ "benCodes" \notin DOMAIN request.query_params.v

\* the transport has answered the POST of the call and the call has ended
C11_Answered == posts = 1 /\ response.kind # "none"

\* the response is a 200 that holds the expected response element, with content
C11_ExpectedElement ==
    /\ response.kind = "returned"
    /\ response.status = 200
    /\ HasPath(response.body, request.method)
    /\ ElementOf(response.body, request.method) # PyNone

\* C11 (as claimed): a call that issued a POST emits at most one log record; it
\* emits one exactly when the transport raised (a warning, and the call ends with
\* the connectivity failure) or the response was a 200 with the expected response
\* element (a debug record); a call that fails on a status other than 200 or on an
\* absent response element emits none.
C11_OneLogRecordWhenRaisedOrFound ==
    C11_Answered =>
        /\ Len(logs) <= 1
        /\ Len(logs) = 1 <=> (response.kind = "raised" \/ C11_ExpectedElement)
        /\ response.kind = "raised" =>
              (Len(logs) = 1 /\ logs[1].level = "warning" /\ ConnectivityFailure)
        /\ C11_ExpectedElement => (Len(logs) = 1 /\ logs[1].level = "debug")
        /\ (response.kind = "returned" /\ ~C11_ExpectedElement) =>
              (result.kind = "raised" /\ logs = <<>>)

====
